---- MODULE Spec2Model ----
(***************************************************************************)
(* State-machine model of the asset persistence backend                    *)
(* (src-tauri/src/lib.rs): the `assets` and `settings` tables behind one   *)
(* Mutex<Connection>, and the five store commands that use them.           *)
(*                                                                         *)
(* Text (SQLite TEXT, Rust String, JSON strings) is a sequence of          *)
(* one-character strings.  Option<T> is a set with at most one element.    *)
(***************************************************************************)
EXTENDS Integers, Sequences, FiniteSets, TLC

(***************************************************************************)
(* Bounds of the model                                                     *)
(***************************************************************************)
\* The wall clock runs from 1 to MaxClock.
MaxClock == 2
\* Number of identifiers Uuid::new_v4 hands out before saves without an id stop.
MaxUuid == 1

VARIABLES
    assets,     \* TABLE assets: a set of rows
    settings,   \* TABLE settings: a set of rows
    clock,      \* the wall clock read by Utc::now()
    issued,     \* how many generated identifiers have been used as a row id
    lock,       \* DbState's Mutex: 0 when free, else the task that holds the guard
    pc,         \* per task: "idle", "lock" (blocked in lock()), "held" (guard held)
    req,        \* per task: the command it last invoked, with its arguments
    resp,       \* per task: what that command returned
    displaced   \* history: the asset rows the last command's statement removed

vars == <<assets, settings, clock, issued, lock, pc, req, resp, displaced>>

(***************************************************************************)
(* Option<T>                                                               *)
(***************************************************************************)
None == {}
Some(x) == {x}
Unwrap(o) == CHOOSE x \in o : TRUE
UnwrapOr(o, d) == IF o = {} THEN d ELSE Unwrap(o)

(***************************************************************************)
(* Text                                                                    *)
(***************************************************************************)
Digits == <<"0", "1", "2", "3", "4", "5", "6", "7", "8", "9">>

\* Byte values of the characters the model uses (ASCII).
Code(c) ==
    CASE c = "\"" -> 34 [] c = "%" -> 37 [] c = "_" -> 95
      [] c = "0" -> 48 [] c = "1" -> 49 [] c = "2" -> 50 [] c = "3" -> 51
      [] c = "4" -> 52 [] c = "5" -> 53 [] c = "6" -> 54 [] c = "7" -> 55
      [] c = "8" -> 56 [] c = "9" -> 57
      [] c = "A" -> 65 [] c = "B" -> 66 [] c = "T" -> 84 [] c = "U" -> 85
      [] c = "a" -> 97 [] c = "b" -> 98 [] c = "c" -> 99 [] c = "d" -> 100
      [] c = "l" -> 108 [] c = "n" -> 110 [] c = "s" -> 115
      [] c = "t" -> 116 [] c = "u" -> 117
      [] OTHER -> 63

\* SQLite's default (BINARY) collation: memcmp order, a prefix sorts first.
RECURSIVE TextLeq(_, _)
TextLeq(a, b) ==
    IF a = <<>> THEN TRUE
    ELSE IF b = <<>> THEN FALSE
    ELSE IF Head(a) = Head(b) THEN TextLeq(Tail(a), Tail(b))
    ELSE Code(Head(a)) < Code(Head(b))

\* chrono's to_rfc3339 of the instant n: fixed-width text whose byte order is
\* the order of the instants (instants are single clock ticks here).
to_rfc3339(n) == <<Digits[n + 1]>>

(***************************************************************************)
(* serde_json::Value.  A value is one record [k, s, n, h, e]: k is the     *)
(* kind ("absent" when a payload has no such key), s the text of a string, *)
(* n the truth value of a bool (0 or 1), h * 2^32 + n the value of a       *)
(* non-negative integer, and e the elements of an array or, for an object, *)
(* its members as key, value, key, value, ... in key order (the Map) with  *)
(* every key once.                                                         *)
(***************************************************************************)
Absent == [k |-> "absent", s |-> <<>>, n |-> 0, h |-> 0, e |-> <<>>]
JNull == [k |-> "null", s |-> <<>>, n |-> 0, h |-> 0, e |-> <<>>]
JBool(b) == [k |-> "bool", s |-> <<>>, n |-> IF b THEN 1 ELSE 0, h |-> 0, e |-> <<>>]
JStr(s) == [k |-> "str", s |-> s, n |-> 0, h |-> 0, e |-> <<>>]
JNum(n) == [k |-> "num", s |-> <<>>, n |-> n, h |-> 0, e |-> <<>>]
JBig(h, n) == [k |-> "num", s |-> <<>>, n |-> n, h |-> h, e |-> <<>>]
JArr(e) == [k |-> "arr", s |-> <<>>, n |-> 0, h |-> 0, e |-> e]
JObj(e) == [k |-> "obj", s |-> <<>>, n |-> 0, h |-> 0, e |-> e]

\* Value::get(key): None when the object has no such key.
get(v) == IF v.k = "absent" THEN None ELSE Some(v)
\* Option::and_then(|v| v.as_str())
as_str(o) == IF o # None /\ Unwrap(o).k = "str" THEN Some(Unwrap(o).s) ELSE None
\* Option::and_then(|v| v.as_u64()): the 64-bit value as <<high word, low word>>
as_u64(o) ==
    IF o # None /\ Unwrap(o).k = "num" THEN Some(<<Unwrap(o).h, Unwrap(o).n>>) ELSE None
\* Option::map(|v| v as u32): the low 32 bits
as_u32(o) == IF o = None THEN None ELSE Some(<<0, Unwrap(o)[2]>>)

IsDigit(c) == \E i \in 1..10 : Digits[i] = c
DigitVal(c) == (CHOOSE i \in 1..10 : Digits[i] = c) - 1

RECURSIVE NatText(_)
NatText(n) == IF n < 10 THEN <<Digits[n + 1]>> ELSE NatText(n \div 10) \o <<Digits[(n % 10) + 1]>>

RECURSIVE TextNat(_, _)
TextNat(t, acc) == IF t = <<>> THEN acc ELSE TextNat(Tail(t), 10 * acc + DigitVal(Head(t)))

NullText == <<"n", "u", "l", "l">>
TrueText == <<"t", "r", "u", "e">>
FalseText == <<"f", "a", "l", "s", "e">>

\* Mutation: a string written between quotes as it is, with no escapes.
Escape_raw(s) == s

\* The characters of a JSON string: a quote or a backslash gets a backslash.
RECURSIVE Escape(_)
Escape(s) ==
    IF s = <<>> THEN <<>>
    ELSE (IF Head(s) \in {"\"", "\\"} THEN <<"\\", Head(s)>> ELSE <<Head(s)>>)
             \o Escape(Tail(s))

\* serde_json::to_string: compact text, members in the Map's order; integers
\* below 2^32.
RECURSIVE to_string(_), JoinValues(_), JoinMembers(_)
to_string(v) ==
    CASE v.k = "null" -> NullText
      [] v.k = "bool" -> IF v.n = 1 THEN TrueText ELSE FalseText
      [] v.k = "num" -> NatText(v.n)
      [] v.k = "arr" -> <<"[">> \o JoinValues(v.e) \o <<"]">>
      [] v.k = "obj" -> <<"{">> \o JoinMembers(v.e) \o <<"}">>
      [] OTHER -> <<"\"">> \o Escape(v.s) \o <<"\"">>

JoinValues(e) ==
    IF e = <<>> THEN <<>>
    ELSE to_string(Head(e)) \o (IF Len(e) = 1 THEN <<>> ELSE <<",">> \o JoinValues(Tail(e)))

JoinMembers(e) ==
    IF e = <<>> THEN <<>>
    ELSE to_string(e[1]) \o <<":">> \o to_string(e[2])
            \o (IF Len(e) = 2 THEN <<>> ELSE <<",">> \o JoinMembers(SubSeq(e, 3, Len(e))))

\* A parser's result: the value read and the text after it, or a failure.
Failed == [ok |-> FALSE, v |-> JNull, rest |-> <<>>]
Parsed(v, rest) == [ok |-> TRUE, v |-> v, rest |-> rest]
StartsWith(t, p) == Len(t) >= Len(p) /\ SubSeq(t, 1, Len(p)) = p
Drop(t, n) == SubSeq(t, n + 1, Len(t))

RECURSIVE DigitRun(_)
DigitRun(t) == IF t # <<>> /\ IsDigit(Head(t)) THEN 1 + DigitRun(Tail(t)) ELSE 0

\* Map::insert: the members stay in key order, a key already present is replaced.
RECURSIVE MapInsert(_, _, _)
MapInsert(e, key, val) ==
    IF e = <<>> THEN <<key, val>>
    ELSE IF e[1] = key THEN <<key, val>> \o Drop(e, 2)
    ELSE IF TextLeq(key.s, e[1].s) THEN <<key, val>> \o e
    ELSE <<e[1], e[2]>> \o MapInsert(Drop(e, 2), key, val)

\* The deserializer, on text without whitespace: the escapes \" \\ and \/ in
\* strings, integers without sign, fraction or exponent.
RECURSIVE ParseValue(_), ParseString(_, _), ParseElements(_, _), ParseMembers(_, _)
ParseValue(t) ==
    IF t = <<>> THEN Failed
    ELSE IF StartsWith(t, NullText) THEN Parsed(JNull, Drop(t, 4))
    ELSE IF StartsWith(t, TrueText) THEN Parsed(JBool(TRUE), Drop(t, 4))
    ELSE IF StartsWith(t, FalseText) THEN Parsed(JBool(FALSE), Drop(t, 5))
    ELSE IF IsDigit(Head(t)) THEN
        LET len == DigitRun(t)
        IN  IF len > 1 /\ Head(t) = "0" THEN Failed
            ELSE Parsed(JNum(TextNat(SubSeq(t, 1, len), 0)), Drop(t, len))
    ELSE IF Head(t) = "\"" THEN ParseString(Tail(t), <<>>)
    ELSE IF Head(t) = "[" THEN
        IF StartsWith(t, <<"[", "]">>) THEN Parsed(JArr(<<>>), Drop(t, 2))
        ELSE ParseElements(Tail(t), <<>>)
    ELSE IF Head(t) = "{" THEN
        IF StartsWith(t, <<"{", "}">>) THEN Parsed(JObj(<<>>), Drop(t, 2))
        ELSE ParseMembers(Tail(t), <<>>)
    ELSE Failed

ParseString(t, acc) ==
    IF t = <<>> THEN Failed
    ELSE IF Head(t) = "\"" THEN Parsed(JStr(acc), Tail(t))
    ELSE IF Head(t) = "\\" THEN
        IF Len(t) >= 2 /\ t[2] \in {"\"", "\\", "/"}
        THEN ParseString(Drop(t, 2), Append(acc, t[2]))
        ELSE Failed
    ELSE ParseString(Tail(t), Append(acc, Head(t)))

ParseElements(t, acc) ==
    LET p == ParseValue(t)
    IN  IF ~p.ok \/ p.rest = <<>> THEN Failed
        ELSE IF Head(p.rest) = "," THEN ParseElements(Tail(p.rest), Append(acc, p.v))
        ELSE IF Head(p.rest) = "]" THEN Parsed(JArr(Append(acc, p.v)), Tail(p.rest))
        ELSE Failed

ParseMembers(t, acc) ==
    IF t = <<>> \/ Head(t) # "\"" THEN Failed
    ELSE LET key == ParseString(Tail(t), <<>>)
         IN  IF ~key.ok \/ key.rest = <<>> \/ Head(key.rest) # ":" THEN Failed
             ELSE LET p == ParseValue(Tail(key.rest))
                      members == MapInsert(acc, key.v, p.v)
                  IN  IF ~p.ok \/ p.rest = <<>> THEN Failed
                      ELSE IF Head(p.rest) = "," THEN ParseMembers(Tail(p.rest), members)
                      ELSE IF Head(p.rest) = "}" THEN Parsed(JObj(members), Tail(p.rest))
                      ELSE Failed

\* serde_json::from_str(..).ok(): None unless the whole text is one JSON value
from_str(t) ==
    LET p == ParseValue(t)
    IN  IF p.ok /\ p.rest = <<>> THEN Some(p.v) ELSE None

(***************************************************************************)
(* SQL                                                                     *)
(***************************************************************************)
\* ASCII upper-casing, as SQLite's LIKE folds case.
ToUpper(c) ==
    CASE c = "a" -> "A" [] c = "b" -> "B" [] c = "l" -> "L" [] c = "n" -> "N"
      [] c = "t" -> "T" [] c = "u" -> "U"
      [] OTHER -> c

\* SQLite's LIKE: '%' matches any run of characters, '_' any one character,
\* other characters match themselves without regard to ASCII case.
RECURSIVE Like(_, _)
Like(pattern, text) ==
    IF pattern = <<>> THEN text = <<>>
    ELSE IF Head(pattern) = "%"
        THEN Like(Tail(pattern), text) \/ (text # <<>> /\ Like(pattern, Tail(text)))
    ELSE /\ text # <<>>
         /\ (Head(pattern) = "_" \/ ToUpper(Head(pattern)) = ToUpper(Head(text)))
         /\ Like(Tail(pattern), Tail(text))

\* Mutation: a plain INSERT that ignores the PRIMARY KEY.
InsertOrReplace_no_key(table, row) == table \cup {row}

\* Mutation: an upsert that keeps the old row's value wherever the new row has none.
InsertOrReplace_merge(table, row) ==
    LET old == {r \in table : r.id = row.id}
        keep(f) == IF row[f] = None /\ old # {} THEN (CHOOSE r \in old : TRUE)[f] ELSE row[f]
    IN  (table \ old) \cup
            {[row EXCEPT !.config = keep("config"), !.metadata = keep("metadata"),
                         !.file_path = keep("file_path"), !.file_size = keep("file_size"),
                         !.quality_score = keep("quality_score")]}

\* Mutation: the conflict is resolved on asset_type instead of id.
InsertOrReplace_by_type(table, row) ==
    {r \in table : r.id # row.id /\ r.asset_type # row.asset_type} \cup {row}

\* INSERT OR REPLACE INTO assets: the row holding the same PRIMARY KEY is
\* deleted, then the new row is inserted.
InsertOrReplace(table, row) == {r \in table : r.id # row.id} \cup {row}

\* INSERT OR REPLACE INTO settings (PRIMARY KEY key)
\* Mutation: INSERT OR IGNORE, the row already stored under the key is kept.
InsertOrReplaceSetting_ignore(table, row) ==
    IF \E r \in table : r.key = row.key THEN table ELSE table \cup {row}

InsertOrReplaceSetting(table, row) == {r \in table : r.key # row.key} \cup {row}

\* Mutation: a DELETE whose WHERE clause is lost once a row matches.
DeleteMatches_all(table, asset_id) ==
    IF \E r \in table : r.id = asset_id THEN table ELSE {}

\* DELETE FROM assets WHERE id = ?1: the rows it removes
DeleteMatches(table, asset_id) == {r \in table : r.id = asset_id}

\* Mutation: ORDER BY updated_at, ascending.
RECURSIVE OrderByUpdated_asc(_)
OrderByUpdated_asc(rows) ==
    IF rows = {} THEN {<<>>}
    ELSE UNION {{<<r>> \o rest : rest \in OrderByUpdated_asc(rows \ {r})} :
                r \in {x \in rows : \A y \in rows : TextLeq(x.updated_at, y.updated_at)}}

\* ORDER BY updated_at DESC: every arrangement of the rows with updated_at
\* non-increasing (SQL leaves the order of equal keys open).
RECURSIVE OrderByUpdatedDesc(_)
OrderByUpdatedDesc(rows) ==
    IF rows = {} THEN {<<>>}
    ELSE UNION {{<<r>> \o rest : rest \in OrderByUpdatedDesc(rows \ {r})} :
                r \in {x \in rows : \A y \in rows : TextLeq(y.updated_at, x.updated_at)}}

\* LIMIT n
Limit(rows, limit) ==
    IF limit = None \/ Unwrap(limit) >= Len(rows) THEN rows
    ELSE SubSeq(rows, 1, Unwrap(limit))

(***************************************************************************)
(* Commands and their results                                              *)
(***************************************************************************)
Tasks == {1, 2}

\* struct AssetFilters
NoFilters == [type |-> None, search |-> None, limit |-> None]

\* A JSON object with none of the keys db_save_asset reads.
EmptyAsset ==
    [id |-> Absent, asset_type |-> Absent, name |-> Absent, config |-> Absent,
     metadata |-> Absent, file_path |-> Absent, file_size |-> Absent,
     quality_score |-> Absent, created_at |-> Absent, updated_at |-> Absent]

NoReq ==
    [op |-> "none", asset |-> EmptyAsset, filters |-> NoFilters,
     asset_id |-> <<>>, key |-> <<>>, value |-> <<>>]
GetAssets(filters) == [NoReq EXCEPT !.op = "db_get_assets", !.filters = filters]
SaveAsset(asset) == [NoReq EXCEPT !.op = "db_save_asset", !.asset = asset]
DeleteAsset(asset_id) == [NoReq EXCEPT !.op = "db_delete_asset", !.asset_id = asset_id]
GetSetting(key) == [NoReq EXCEPT !.op = "db_get_setting", !.key = key]
SaveSetting(key, value) ==
    [NoReq EXCEPT !.op = "db_save_setting", !.key = key, !.value = value]

\* Result<_, String>: st is "Ok" or "Err"; msg the message, val an Ok(String)
\* or Ok(Option<String>) payload, rows an Ok(Vec<Value>) payload.
NoResp == [st |-> "none", msg |-> "", val |-> None, rows |-> <<>>]
Err(msg) == [st |-> "Err", msg |-> msg, val |-> None, rows |-> <<>>]
OkMsg(msg) == [st |-> "Ok", msg |-> msg, val |-> None, rows |-> <<>>]
OkVal(val) == [st |-> "Ok", msg |-> "", val |-> val, rows |-> <<>>]
OkRows(rows) == [st |-> "Ok", msg |-> "", val |-> None, rows |-> rows]

\* Mutation: every generated identifier is one fixed text.
new_v4_fixed(k) == <<"a">>

\* Uuid::new_v4().to_string(): the k-th identifier generated; distinct from
\* every identifier generated before it.
new_v4(k) == <<"u", Digits[k + 1]>>

\* json!: an Option is written as its value, None as null.
ToJson(o) == UnwrapOr(o, JNull)

\* The closure create_asset_row_mapper returns: one row as a JSON asset
\* (config and metadata as JSON values, the other optional columns as Options).
create_asset_row_mapper(row) ==
    [id |-> row.id,
     asset_type |-> row.asset_type,
     name |-> row.name,
     config |-> ToJson(IF row.config = None THEN None ELSE from_str(Unwrap(row.config))),
     metadata |-> ToJson(IF row.metadata = None THEN None
                         ELSE from_str(Unwrap(row.metadata))),
     file_path |-> row.file_path,
     file_size |-> row.file_size,
     quality_score |-> row.quality_score,
     created_at |-> row.created_at,
     updated_at |-> row.updated_at]

\* The WHERE conditions db_get_assets pushes, in order.
Conditions(filters) ==
    (IF filters.type # None THEN <<"asset_type = ?">> ELSE <<>>)
        \o (IF filters.search # None THEN <<"name LIKE ?">> ELSE <<>>)

\* Mutation: the two-filter branch binds its parameters in the wrong order.
Params_swapped(filters) ==
    IF filters.type # None /\ filters.search # None
        THEN <<<<"%">> \o Unwrap(filters.search) \o <<"%">>, Unwrap(filters.type)>>
    ELSE IF filters.type # None THEN <<Unwrap(filters.type)>>
    ELSE IF filters.search # None THEN <<<<"%">> \o Unwrap(filters.search) \o <<"%">>>>
    ELSE <<>>

\* The parameters db_get_assets binds, in order, in each of its four branches.
Params(filters) ==
    IF filters.type # None /\ filters.search # None
        THEN <<Unwrap(filters.type), <<"%">> \o Unwrap(filters.search) \o <<"%">>>>
    ELSE IF filters.type # None THEN <<Unwrap(filters.type)>>
    ELSE IF filters.search # None THEN <<<<"%">> \o Unwrap(filters.search) \o <<"%">>>>
    ELSE <<>>

\* conditions.join(" AND ") evaluated on one row, the i-th '?' bound to params[i].
Where(row, conditions, params) ==
    \A i \in 1..Len(conditions) :
        IF conditions[i] = "asset_type = ?"
            THEN row.asset_type = params[i]
            ELSE Like(params[i], row.name)

\* Mutation: created_at and updated_at bound to each other's parameter.
AssetRow_swapped(asset, id, now) ==
    [id |-> id,
     asset_type |-> Unwrap(as_str(get(asset.asset_type))),
     name |-> Unwrap(as_str(get(asset.name))),
     config |-> IF get(asset.config) = None THEN None ELSE Some(to_string(asset.config)),
     metadata |-> IF get(asset.metadata) = None THEN None
                  ELSE Some(to_string(asset.metadata)),
     file_path |-> as_str(get(asset.file_path)),
     file_size |-> as_u64(get(asset.file_size)),
     quality_score |-> as_u32(as_u64(get(asset.quality_score))),
     created_at |-> now,
     updated_at |-> UnwrapOr(as_str(get(asset.created_at)), now)]

\* Mutation: updated_at is read from the payload like created_at.
AssetRow_payload_updated_at(asset, id, now) ==
    [id |-> id,
     asset_type |-> Unwrap(as_str(get(asset.asset_type))),
     name |-> Unwrap(as_str(get(asset.name))),
     config |-> IF get(asset.config) = None THEN None ELSE Some(to_string(asset.config)),
     metadata |-> IF get(asset.metadata) = None THEN None
                  ELSE Some(to_string(asset.metadata)),
     file_path |-> as_str(get(asset.file_path)),
     file_size |-> as_u64(get(asset.file_size)),
     quality_score |-> as_u32(as_u64(get(asset.quality_score))),
     created_at |-> UnwrapOr(as_str(get(asset.created_at)), now),
     updated_at |-> UnwrapOr(as_str(get(asset.updated_at)), now)]

\* The row db_save_asset binds to its INSERT OR REPLACE.
AssetRow(asset, id, now) ==
    [id |-> id,
     asset_type |-> Unwrap(as_str(get(asset.asset_type))),
     name |-> Unwrap(as_str(get(asset.name))),
     config |-> IF get(asset.config) = None THEN None ELSE Some(to_string(asset.config)),
     metadata |-> IF get(asset.metadata) = None THEN None
                  ELSE Some(to_string(asset.metadata)),
     file_path |-> as_str(get(asset.file_path)),
     file_size |-> as_u64(get(asset.file_size)),
     quality_score |-> as_u32(as_u64(get(asset.quality_score))),
     created_at |-> UnwrapOr(as_str(get(asset.created_at)), now),
     updated_at |-> now]

(***************************************************************************)
(* The command bodies, from the statement after lock() to the return.      *)
(* Each sets the tables and the calling task's result.                     *)
(***************************************************************************)
Return(t, r) == resp' = [resp EXCEPT ![t] = r]

\* Every Vec the query of db_get_assets can produce on a table.
ListResults(table, filters) ==
    LET selected == {r \in table : Where(r, Conditions(filters), Params(filters))}
    IN  {[i \in 1..Len(Limit(rows, filters.limit)) |-> create_asset_row_mapper(rows[i])] :
            rows \in OrderByUpdatedDesc(selected)}

db_get_assets(t, filters) ==
    /\ \E assets_vec \in ListResults(assets, filters) : Return(t, OkRows(assets_vec))
    /\ UNCHANGED <<assets, settings, issued>>

\* Mutation: the old row is cleared before the name is validated.
db_save_asset_write_first(t, asset) ==
    LET default_id == new_v4(issued + 1)
        given == as_str(get(asset.id))
        id == UnwrapOr(given, default_id)
        now == to_rfc3339(clock)
    IN  IF as_str(get(asset.asset_type)) = None
            THEN Return(t, Err("Missing asset_type")) /\ UNCHANGED <<assets, settings, issued>>
        ELSE IF as_str(get(asset.name)) = None
            THEN /\ assets' = {r \in assets : r.id # id}
                 /\ Return(t, Err("Missing name"))
                 /\ UNCHANGED <<settings, issued>>
        ELSE /\ assets' = InsertOrReplace(assets, AssetRow(asset, id, now))
             /\ issued' = IF given = None THEN issued + 1 ELSE issued
             /\ Return(t, OkVal(Some(id)))
             /\ UNCHANGED settings

db_save_asset(t, asset) ==
    LET default_id == new_v4(issued + 1)
        given == as_str(get(asset.id))
        id == UnwrapOr(given, default_id)
        now == to_rfc3339(clock)
    IN  IF as_str(get(asset.asset_type)) = None
            THEN Return(t, Err("Missing asset_type")) /\ UNCHANGED <<assets, settings, issued>>
        ELSE IF as_str(get(asset.name)) = None
            THEN Return(t, Err("Missing name")) /\ UNCHANGED <<assets, settings, issued>>
        ELSE /\ assets' = InsertOrReplace(assets, AssetRow(asset, id, now))
             /\ issued' = IF given = None THEN issued + 1 ELSE issued
             /\ Return(t, OkVal(Some(id)))
             /\ UNCHANGED settings

\* Mutation: zero rows affected is reported as a success.
db_delete_asset_silent(t, asset_id) ==
    /\ assets' = assets \ DeleteMatches(assets, asset_id)
    /\ Return(t, OkMsg("Asset deleted successfully"))
    /\ UNCHANGED <<settings, issued>>

db_delete_asset(t, asset_id) ==
    LET rows_affected == Cardinality(DeleteMatches(assets, asset_id))
    IN  /\ assets' = assets \ DeleteMatches(assets, asset_id)
        /\ IF rows_affected = 0
              THEN Return(t, Err("Asset not found"))
              ELSE Return(t, OkMsg("Asset deleted successfully"))
        /\ UNCHANGED <<settings, issued>>

db_get_setting(t, key) ==
    LET found == {r \in settings : r.key = key}
    IN  /\ Return(t, OkVal({r.value : r \in found}))
        /\ UNCHANGED <<assets, settings, issued>>

db_save_setting(t, key, value) ==
    /\ settings' = InsertOrReplaceSetting(settings,
                        [key |-> key, value |-> value, updated_at |-> to_rfc3339(clock)])
    /\ Return(t, OkMsg("Setting saved successfully"))
    /\ UNCHANGED <<assets, issued>>

\* generate_handler!: the command a request names, run on its arguments
Handler(t, rq) ==
    \/ rq.op = "db_get_assets" /\ db_get_assets(t, rq.filters)
    \/ rq.op = "db_save_asset" /\ db_save_asset(t, rq.asset)
    \/ rq.op = "db_delete_asset" /\ db_delete_asset(t, rq.asset_id)
    \/ rq.op = "db_get_setting" /\ db_get_setting(t, rq.key)
    \/ rq.op = "db_save_setting" /\ db_save_setting(t, rq.key, rq.value)

\* A save that reaches the INSERT without a string id uses one generated identifier.
NeedsUuid(rq) ==
    /\ rq.op = "db_save_asset"
    /\ as_str(get(rq.asset.id)) = None
    /\ as_str(get(rq.asset.asset_type)) # None
    /\ as_str(get(rq.asset.name)) # None
Pending == Cardinality({t \in Tasks : pc[t] # "idle" /\ NeedsUuid(req[t])})

(***************************************************************************)
(* Steps                                                                   *)
(***************************************************************************)
Init ==
    /\ assets = {}
    /\ settings = {}
    /\ clock = 1
    /\ issued = 0
    /\ lock = 0
    /\ pc = [t \in Tasks |-> "idle"]
    /\ req = [t \in Tasks |-> NoReq]
    /\ resp = [t \in Tasks |-> NoResp]
    /\ displaced = {}

\* Time passes.
Tick ==
    /\ clock < MaxClock
    /\ clock' = clock + 1
    /\ UNCHANGED <<assets, settings, issued, lock, pc, req, resp, displaced>>

\* The runtime dispatches a command as a task; its first statement is lock().
Call(t, rq) ==
    /\ pc[t] = "idle"
    /\ NeedsUuid(rq) => issued + Pending < MaxUuid
    /\ pc' = [pc EXCEPT ![t] = "lock"]
    /\ req' = [req EXCEPT ![t] = rq]
    /\ resp' = [resp EXCEPT ![t] = NoResp]
    /\ UNCHANGED <<assets, settings, clock, issued, lock, displaced>>

\* Mutation: lock() returns a guard without waiting for the mutex.
Lock_no_wait(t) ==
    /\ pc[t] = "lock"
    /\ lock' = t
    /\ pc' = [pc EXCEPT ![t] = "held"]
    /\ UNCHANGED <<assets, settings, clock, issued, req, resp, displaced>>

\* db_state.0.lock() returns the guard once the mutex is free.
Lock(t) ==
    /\ pc[t] = "lock"
    /\ lock = 0
    /\ lock' = t
    /\ pc' = [pc EXCEPT ![t] = "held"]
    /\ UNCHANGED <<assets, settings, clock, issued, req, resp, displaced>>

\* Mutation: the guard is dropped only when the command succeeds.
Exec_keep_on_error(t) ==
    /\ pc[t] = "held"
    /\ Handler(t, req[t])
    /\ displaced' = assets \ assets'
    /\ lock' = IF resp'[t].st = "Err" THEN t ELSE 0
    /\ pc' = [pc EXCEPT ![t] = "idle"]
    /\ UNCHANGED <<clock, req>>

\* The command body runs under the guard; returning drops the guard.
Exec(t) ==
    /\ pc[t] = "held"
    /\ Handler(t, req[t])
    /\ displaced' = assets \ assets'
    /\ lock' = 0
    /\ pc' = [pc EXCEPT ![t] = "idle"]
    /\ UNCHANGED <<clock, req>>

\* One command from lock() to return with no other task running.
Invoke(t, rq) ==
    /\ pc[t] = "idle"
    /\ lock = 0
    /\ NeedsUuid(rq) => issued + Pending < MaxUuid
    /\ req' = [req EXCEPT ![t] = rq]
    /\ Handler(t, rq)
    /\ displaced' = assets \ assets'
    /\ UNCHANGED <<clock, lock, pc>>

\* The commands that never take the DbState argument: the file commands wait
\* on tokio::fs, the dialog commands on rx.recv() until the user answers.
BoundaryOps ==
    {"fs_save_file", "fs_read_file", "fs_ensure_dir",
     "dialog_open_directory", "dialog_save_file"}

Boundary(op) == [NoReq EXCEPT !.op = op]

\* What a boundary command can return, by what the file system or the user does.
Outcomes(op) ==
    CASE op = "fs_save_file" ->
            {OkMsg("File saved successfully to: "), Err("Failed to create directories: "),
             Err("Failed to write file: ")}
      [] op = "fs_read_file" ->
            {OkMsg("data"), Err("File does not exist: "), Err("Failed to read file: ")}
      [] op = "fs_ensure_dir" ->
            {OkMsg("Directory ensured: "), Err("Failed to create directory: ")}
      [] op = "dialog_open_directory" ->
            {OkRows(<<"path">>), OkRows(<<>>), Err("Dialog communication error: ")}
      [] op = "dialog_save_file" ->
            {OkMsg("path"), Err("User cancelled"), Err("Dialog communication error: ")}
      [] OTHER -> {}

\* Mutation: the command takes the connection's mutex before it waits.
Suspend_under_lock(t, op) ==
    /\ pc[t] = "idle"
    /\ lock = 0
    /\ lock' = t
    /\ pc' = [pc EXCEPT ![t] = "wait"]
    /\ req' = [req EXCEPT ![t] = Boundary(op)]
    /\ resp' = [resp EXCEPT ![t] = NoResp]
    /\ UNCHANGED <<assets, settings, clock, issued, displaced>>

\* A boundary command starts and is suspended on the file system or the dialog.
Suspend(t, op) ==
    /\ pc[t] = "idle"
    /\ pc' = [pc EXCEPT ![t] = "wait"]
    /\ req' = [req EXCEPT ![t] = Boundary(op)]
    /\ resp' = [resp EXCEPT ![t] = NoResp]
    /\ UNCHANGED <<assets, settings, clock, issued, lock, displaced>>

\* The file operation finishes or the user answers; the command returns.
Resume(t) ==
    /\ pc[t] = "wait"
    /\ \E r \in Outcomes(req[t].op) : Return(t, r)
    /\ pc' = [pc EXCEPT ![t] = "idle"]
    /\ UNCHANGED <<assets, settings, clock, issued, lock, req, displaced>>

(***************************************************************************)
(* Inputs                                                                  *)
(***************************************************************************)
IdA == <<"a">>
IdB == <<"b">>
IdC == <<"c">>
\* The identifiers earlier saves generated (and returned to their callers).
Generated == {new_v4(k) : k \in 1..issued}

\* Every optional field present; created_at later and updated_at earlier than
\* any clock reading.
Full == [id |-> Absent, asset_type |-> JStr(<<"T">>), name |-> JStr(<<"a", "b">>),
         config |-> JNum(7), metadata |-> JStr(<<"b">>), file_path |-> JStr(<<"a">>),
         file_size |-> JNum(5), quality_score |-> JNum(3),
         created_at |-> JStr(<<"9">>), updated_at |-> JStr(<<"0">>)]
\* Only the required fields.
Bare == [EmptyAsset EXCEPT !.asset_type = JStr(<<"t">>), !.name = JStr(<<"A">>)]
NoType == [Bare EXCEPT !.asset_type = Absent]
NoName == [Full EXCEPT !.name = Absent]
NumType == [Full EXCEPT !.asset_type = JNum(1)]
NumName == [Bare EXCEPT !.name = JNum(1)]

WithId(asset, id) == [asset EXCEPT !.id = id]

\* Saves, deletes and lists by one caller.
StoreAssets ==
    {WithId(a, id) : a \in {Full, Bare}, id \in {Absent} \cup {JStr(i) : i \in {IdA} \cup Generated}}
        \cup {WithId(Bare, JNum(1)), NoType, WithId(NoType, JNum(1))}
        \cup {WithId(a, JStr(IdA)) : a \in {NoType, NoName, NumType, NumName}}

StoreRequests ==
    {SaveAsset(a) : a \in StoreAssets}
        \cup {DeleteAsset(i) : i \in {IdA} \cup Generated}
        \cup {GetAssets(NoFilters), GetAssets([NoFilters EXCEPT !.type = Some(<<"T">>)])}
        \cup {SaveSetting(<<"a">>, <<"0">>)}

NextStore ==
    \/ \E rq \in StoreRequests : Invoke(1, rq)
    \/ Tick

SpecStore == Init /\ [][NextStore]_vars

\* Saves and filtered lists by one caller.
QueryAssets == {WithId(a, JStr(i)) : a \in {Full, Bare}, i \in {IdA, IdB, IdC}}

QueryLimits == {None, Some(0), Some(1), Some(2)}

QueryFilters ==
    {[type |-> ty, search |-> se, limit |-> li] :
        ty \in {None, Some(<<"T">>), Some(<<"t">>)},
        se \in {None, Some(<<"a">>), Some(<<"b">>), Some(<<"_">>)},
        li \in QueryLimits}

QueryRequests ==
    {SaveAsset(a) : a \in QueryAssets} \cup {GetAssets(f) : f \in QueryFilters}

NextQuery ==
    \/ \E rq \in QueryRequests : Invoke(1, rq)
    \/ Tick

SpecQuery == Init /\ [][NextQuery]_vars

\* Concurrent tasks, one command each at a time, over all five store commands.
TaskRequests ==
    {SaveAsset(WithId(Bare, JStr(IdA))), SaveAsset(WithId(Bare, JStr(IdB))),
     DeleteAsset(IdA), GetAssets(NoFilters),
     GetSetting(<<"a">>), SaveSetting(<<"a">>, <<"0">>)}

Next ==
    \/ \E t \in Tasks, rq \in TaskRequests : Call(t, rq)
    \/ \E t \in Tasks : Lock(t)
    \/ \E t \in Tasks : Exec(t)
    \/ Tick

Spec == Init /\ [][Next]_vars

\* Concurrent tasks that save and list, and never delete.
SaveRequests ==
    {SaveAsset(WithId(Bare, JStr(IdA))), SaveAsset(WithId(Bare, JStr(IdB))),
     SaveAsset(WithId(Full, JStr(IdB))), GetAssets(NoFilters)}

NextSaves ==
    \/ \E t \in Tasks, rq \in SaveRequests : Call(t, rq)
    \/ \E t \in Tasks : Lock(t)
    \/ \E t \in Tasks : Exec(t)
    \/ Tick

SpecSaves == Init /\ [][NextSaves]_vars

\* Settings written and read by two callers, one command at a time, next to
\* asset commands.
SettingKeys == {<<"a">>, <<"b">>}
SettingValues == {<<"0">>, <<"1">>}

SettingRequests ==
    {SaveSetting(k, v) : k \in SettingKeys, v \in SettingValues}
        \cup {GetSetting(k) : k \in SettingKeys}
        \cup {SaveAsset(WithId(Bare, JStr(IdA))), DeleteAsset(IdA)}

NextSettings ==
    \/ \E t \in Tasks : \E rq \in SettingRequests : Invoke(t, rq)
    \/ Tick

SpecSettings == Init /\ [][NextSettings]_vars

\* Saves of one id whose optional fields range over the kinds of JSON value,
\* and lists, by one caller.
Quote == "\""
Backslash == "\\"
CodecObject == JObj(<<JStr(<<"b">>), JStr(<<"d">>), JStr(<<"s">>), JNum(42)>>)
CodecValues ==
    {JNull, JBool(TRUE), JBool(FALSE), JNum(0), JNum(42), JStr(<<>>),
     JStr(<<"a", Quote, Backslash, "b">>),
     JArr(<<>>), JArr(<<JNum(1), JStr(<<",">>), JNull>>),
     JObj(<<>>), CodecObject,
     JObj(<<JStr(<<Quote>>), JBool(TRUE), JStr(<<"a">>), JArr(<<CodecObject>>)>>)}

CodecAssets ==
    {[Bare EXCEPT !.config = v, !.metadata = w] :
        v \in CodecValues \cup {Absent}, w \in {Absent, CodecObject}}
      \cup {[Bare EXCEPT !.quality_score = q] :
                q \in {JNum(0), JNum(3), JBig(0, 7), JBig(1, 0), JBig(1, 5), JStr(<<"3">>)}}
      \cup {[Bare EXCEPT !.name = JStr(<<>>)], [Bare EXCEPT !.asset_type = JStr(<<>>)],
             [Full EXCEPT !.asset_type = JStr(<<>>), !.name = JStr(<<>>)]}

CodecRequests ==
    {SaveAsset(WithId(a, JStr(IdA))) : a \in CodecAssets}
        \cup {GetAssets(NoFilters), DeleteAsset(IdA)}

NextCodec ==
    \/ \E rq \in CodecRequests : Invoke(1, rq)
    \/ Tick

SpecCodec == Init /\ [][NextCodec]_vars

\* Concurrent tasks over store commands that succeed and that fail, and over
\* the file and dialog commands.  A task that holds the guard runs to its
\* return; a task waiting in lock() gets the mutex if it is free again and
\* again (fair scheduling); nothing makes a user answer a dialog.
FairRequests ==
    {SaveAsset(WithId(Bare, JStr(IdA))), SaveAsset(WithId(NoType, JStr(IdA))),
     SaveAsset(WithId(NumName, JStr(IdA))), DeleteAsset(IdA), GetAssets(NoFilters)}

NextFair ==
    \/ \E t \in Tasks, rq \in FairRequests : Call(t, rq)
    \/ \E t \in Tasks : Lock(t)
    \/ \E t \in Tasks : Exec(t)
    \/ \E t \in Tasks, op \in BoundaryOps : Suspend(t, op)
    \/ \E t \in Tasks : Resume(t)
    \/ Tick

Fairness == \A t \in Tasks : WF_vars(Exec(t)) /\ SF_vars(Lock(t))

SpecFair == Init /\ [][NextFair]_vars /\ Fairness

(***************************************************************************)
(* Vocabulary of the properties                                            *)
(***************************************************************************)
AssetIds(table) == {r.id : r \in table}

\* This step is task t's command running from its body to its return.
Ran(t) == Exec(t) \/ Invoke(t, req'[t])

SaveOk(t) == req'[t].op = "db_save_asset" /\ resp'[t].st = "Ok"
DeleteOk(t) == req'[t].op = "db_delete_asset" /\ resp'[t].st = "Ok"

OptionalFields == {"config", "metadata", "file_path", "file_size", "quality_score"}

(***************************************************************************)
(* C1  Mutual exclusion on the connection.  At most one task holds the     *)
(* guard, and the mutex names exactly that task; the tables change only in *)
(* the step of the task that holds the guard, so nothing changes them      *)
(* between a task's lock() and its return; and a read returns the tables   *)
(* as every command that returned before has left them.                    *)
(***************************************************************************)
C1_State ==
    /\ Cardinality({t \in Tasks : pc[t] = "held"}) <= 1
    /\ \A t \in Tasks : pc[t] = "held" <=> lock = t

C1_Step ==
    /\ (assets' # assets \/ settings' # settings) =>
          \E t \in Tasks : lock = t /\ pc[t] = "held" /\ pc'[t] = "idle"
    /\ \A t \in Tasks :
          (pc[t] = "held" /\ pc'[t] = "held") => (assets' = assets /\ settings' = settings)
    /\ \A t \in Tasks :
          (Ran(t) /\ req'[t].op = "db_get_assets") =>
              {resp'[t].rows[i].id : i \in 1..Len(resp'[t].rows)} = AssetIds(assets)
    /\ \A t \in Tasks :
          (Ran(t) /\ req'[t].op = "db_get_setting") =>
              resp'[t].val = {r.value : r \in {x \in settings : x.key = req'[t].key}}

C1_MutualExclusion == [](C1_State) /\ [][C1_Step]_vars

\* One task is inside a write while the other waits in lock() to write.
C1_Witness ==
    /\ pc[1] = "held" /\ req[1].op = "db_save_asset"
    /\ pc[2] = "lock" /\ req[2].op = "db_delete_asset"
    /\ assets # {}

(***************************************************************************)
(* C2  No lost update.  Once two tasks have each returned from a save, of  *)
(* two distinct ids, every unfiltered list of the table holds both ids;    *)
(* and a task that holds the guard can always run to its return.           *)
(***************************************************************************)
C2_Returned(t) ==
    pc[t] = "idle" /\ req[t].op = "db_save_asset" /\ resp[t].st = "Ok"

C2_NoLostUpdate ==
    /\ \A t1, t2 \in Tasks :
          (t1 # t2 /\ C2_Returned(t1) /\ C2_Returned(t2) /\ resp[t1].val # resp[t2].val) =>
              \A res \in ListResults(assets, NoFilters) :
                  resp[t1].val \cup resp[t2].val \subseteq {res[i].id : i \in 1..Len(res)}
    /\ \A t \in Tasks : pc[t] = "held" => ENABLED Exec(t)
    /\ \A t \in Tasks : (pc[t] = "lock" /\ lock = 0) => ENABLED Lock(t)
    /\ lock # 0 => pc[lock] = "held"

\* Both tasks have returned from saves of distinct ids.
C2_Witness ==
    /\ C2_Returned(1) /\ C2_Returned(2)
    /\ resp[1].val = Some(IdA) /\ resp[2].val = Some(IdB)
    /\ Cardinality(assets) = 2

(***************************************************************************)
(* C3  Id uniqueness.  The assets table never holds two rows with one id;  *)
(* an id enters the table exactly when a save returns it and leaves it     *)
(* exactly when a delete of it succeeds, and every unfiltered list of the  *)
(* table holds each stored id exactly once.                                *)
(***************************************************************************)
C3_State ==
    /\ \A r1, r2 \in assets : r1.id = r2.id => r1 = r2
    /\ \A res \in ListResults(assets, NoFilters) :
          /\ Len(res) = Cardinality(AssetIds(assets))
          /\ \A id \in AssetIds(assets) :
                Cardinality({i \in 1..Len(res) : res[i].id = id}) = 1

C3_Step ==
    AssetIds(assets') =
        (AssetIds(assets) \cup UNION {resp'[t].val : t \in {u \in Tasks : Ran(u) /\ SaveOk(u)}})
            \ {req'[t].asset_id : t \in {u \in Tasks : Ran(u) /\ DeleteOk(u)}}

C3_IdUniqueness == [](C3_State) /\ [][C3_Step]_vars

\* A second save of an id replaced its row while another row was stored.
C3_Witness ==
    /\ req[1].op = "db_save_asset" /\ resp[1].st = "Ok"
    /\ displaced # {}
    /\ Cardinality(assets) >= 2

(***************************************************************************)
(* C4  Full overwrite on upsert.  A save whose id names an existing row    *)
(* leaves the number of rows unchanged and leaves under that id one row    *)
(* made of the payload alone: the required fields and every supplied       *)
(* optional field as given, every omitted optional field absent.           *)
(***************************************************************************)
C4_Step ==
    \A t \in Tasks :
        (Ran(t) /\ SaveOk(t) /\ resp'[t].val \subseteq AssetIds(assets)) =>
            LET a == req'[t].asset
                new == {r \in assets' : Some(r.id) = resp'[t].val}
            IN  /\ Cardinality(assets') = Cardinality(assets)
                /\ Cardinality(new) = 1
                /\ \A r \in new :
                      /\ r.asset_type = a.asset_type.s
                      /\ r.name = a.name.s
                      /\ \A f \in OptionalFields : a[f].k = "absent" => r[f] = None
                      /\ \A f \in {"config", "metadata"} :
                            a[f].k # "absent" =>
                                r[f] # None /\ from_str(Unwrap(r[f])) = Some(a[f])
                      /\ a.file_path.k = "str" => r.file_path = Some(a.file_path.s)
                      /\ a.file_size.k = "num" =>
                            r.file_size = Some(<<a.file_size.h, a.file_size.n>>)
                      /\ (a.quality_score.k = "num" /\ a.quality_score.h = 0) =>
                            r.quality_score = Some(<<0, a.quality_score.n>>)

C4_FullOverwrite == [][C4_Step]_vars

\* A row that had a config was replaced by a save that carried none.
C4_Witness ==
    /\ req[1].op = "db_save_asset" /\ resp[1].st = "Ok"
    /\ req[1].asset.config.k = "absent"
    /\ \E old \in displaced : old.config # None
    /\ \E r \in assets : Some(r.id) = resp[1].val /\ r.config = None

(***************************************************************************)
(* C5  created_at is set once.  A save of an existing id whose payload     *)
(* carries no created_at leaves the row's created_at as it was.            *)
(***************************************************************************)
C5_Step ==
    \A t \in Tasks :
        (Ran(t) /\ SaveOk(t) /\ as_str(get(req'[t].asset.created_at)) = None) =>
            \A old \in assets, new \in assets' :
                (old.id = new.id /\ Some(new.id) = resp'[t].val) =>
                    new.created_at = old.created_at

C5_CreatedAtSetOnce == [][C5_Step]_vars

(***************************************************************************)
(* C6  A save under a fresh id stores created_at <= updated_at.            *)
(* As claimed, whatever the payload supplies:                              *)
(***************************************************************************)
C6_OriginalStep ==
    \A t \in Tasks :
        (Ran(t) /\ SaveOk(t) /\ resp'[t].val \cap AssetIds(assets) = {}) =>
            \A r \in assets' :
                Some(r.id) = resp'[t].val => TextLeq(r.created_at, r.updated_at)

C6_Original == [][C6_OriginalStep]_vars

(***************************************************************************)
(* C6 as amended: a save under a fresh id stores updated_at = the clock    *)
(* reading; without a created_at in the payload it stores created_at =     *)
(* updated_at, and with one it stores the supplied text, so that           *)
(* created_at <= updated_at exactly when the supplied text is not later    *)
(* than the clock reading.                                                 *)
(***************************************************************************)
C6_AmendedStep ==
    \A t \in Tasks :
        (Ran(t) /\ SaveOk(t) /\ resp'[t].val \cap AssetIds(assets) = {}) =>
            LET supplied == req'[t].asset.created_at
            IN  \A r \in assets' :
                    Some(r.id) = resp'[t].val =>
                        /\ r.updated_at = to_rfc3339(clock)
                        /\ supplied.k # "str" =>
                              r.created_at = r.updated_at
                                  /\ TextLeq(r.created_at, r.updated_at)
                        /\ supplied.k = "str" =>
                              /\ r.created_at = supplied.s
                              /\ TextLeq(r.created_at, r.updated_at)
                                    <=> TextLeq(supplied.s, to_rfc3339(clock))

C6_Amended == [][C6_AmendedStep]_vars

\* A save without created_at stored a new row, after the clock had advanced.
C6_Witness ==
    /\ req[1].op = "db_save_asset" /\ resp[1].st = "Ok"
    /\ req[1].asset.created_at.k = "absent"
    /\ displaced = {}
    /\ clock > 1
    /\ \E r \in assets :
          Some(r.id) = resp[1].val /\ r.created_at = to_rfc3339(clock)

(***************************************************************************)
(* C7  Deleting an id that has no row returns Err("Asset not found") and   *)
(* changes neither table.                                                  *)
(***************************************************************************)
C7_Step ==
    \A t \in Tasks :
        (Ran(t) /\ req'[t].op = "db_delete_asset"
                /\ req'[t].asset_id \notin AssetIds(assets)) =>
            /\ resp'[t] = Err("Asset not found")
            /\ assets' = assets
            /\ settings' = settings

C7_DeleteMissing == [][C7_Step]_vars

\* A delete failed although both tables hold rows.
C7_Witness ==
    /\ req[1].op = "db_delete_asset"
    /\ resp[1] = Err("Asset not found")
    /\ assets # {}
    /\ settings # {}

(***************************************************************************)
(* C8  Deleting an existing id succeeds and removes that row alone: the    *)
(* other rows and the settings stay, no list (whatever its filters)        *)
(* returns an id the table does not hold, and an id outside the table      *)
(* comes back only by a save that returns it.                              *)
(***************************************************************************)
C8_Filters ==
    {[type |-> ty, search |-> se, limit |-> li] :
        ty \in {None, Some(<<"T">>)}, se \in {None, Some(<<"a">>)}, li \in {None, Some(1)}}

C8_State ==
    \A f \in C8_Filters : \A res \in ListResults(assets, f) :
        \A i \in 1..Len(res) : res[i].id \in AssetIds(assets)

C8_Step ==
    /\ \A t \in Tasks :
          (Ran(t) /\ req'[t].op = "db_delete_asset"
                  /\ req'[t].asset_id \in AssetIds(assets)) =>
              /\ resp'[t] = OkMsg("Asset deleted successfully")
              /\ assets' = {r \in assets : r.id # req'[t].asset_id}
              /\ settings' = settings
    /\ \A t \in Tasks :
          (Ran(t) /\ req'[t].op = "db_get_assets") =>
              \A i \in 1..Len(resp'[t].rows) : resp'[t].rows[i].id \in AssetIds(assets)
    /\ \A id \in AssetIds(assets') \ AssetIds(assets) :
          \E t \in Tasks : Ran(t) /\ SaveOk(t) /\ resp'[t].val = Some(id)

C8_DeleteExisting == [](C8_State) /\ [][C8_Step]_vars

\* A delete removed one row and left another row and a setting behind.
C8_Witness ==
    /\ req[1].op = "db_delete_asset"
    /\ resp[1].st = "Ok"
    /\ displaced # {}
    /\ assets # {}
    /\ settings # {}

(***************************************************************************)
(* C9  Validation precedes writing.  A save whose asset_type or name is    *)
(* missing or not a string returns a "Missing ..." error and leaves the    *)
(* assets table as it was.                                                 *)
(***************************************************************************)
C9_Step ==
    \A t \in Tasks :
        (Ran(t) /\ req'[t].op = "db_save_asset"
                /\ (req'[t].asset.asset_type.k # "str" \/ req'[t].asset.name.k # "str")) =>
            /\ resp'[t].st = "Err"
            /\ resp'[t].msg =
                  (IF req'[t].asset.asset_type.k # "str"
                      THEN "Missing asset_type" ELSE "Missing name")
            /\ assets' = assets

C9_ValidationFirst == [][C9_Step]_vars

\* A save without a name was refused although its id names a stored row.
C9_Witness ==
    /\ req[1].op = "db_save_asset"
    /\ resp[1] = Err("Missing name")
    /\ \E r \in assets : req[1].asset.id = JStr(r.id)

(***************************************************************************)
(* C10  Filter composition.  A list without a limit returns Ok with        *)
(* exactly the stored rows that satisfy every filter present, each once:   *)
(* asset_type equal to type, and name matching %search% under LIKE; all    *)
(* rows when no filter is present, none when nothing matches.              *)
(***************************************************************************)
C10_Matches(r, f) ==
    /\ f.type # None => r.asset_type = Unwrap(f.type)
    /\ f.search # None => Like(<<"%">> \o Unwrap(f.search) \o <<"%">>, r.name)

C10_FilterComposition ==
    \A t \in Tasks :
        (pc[t] = "idle" /\ req[t].op = "db_get_assets" /\ req[t].filters.limit = None) =>
            LET expected == {r \in assets : C10_Matches(r, req[t].filters)}
                rows == resp[t].rows
            IN  /\ resp[t].st = "Ok"
                /\ Len(rows) = Cardinality(expected)
                /\ {rows[i] : i \in 1..Len(rows)} =
                      {create_asset_row_mapper(r) : r \in expected}

\* A list with both filters returned one of two stored rows.
C10_Witness ==
    /\ req[1].op = "db_get_assets"
    /\ req[1].filters.type # None /\ req[1].filters.search # None
    /\ Len(resp[1].rows) = 1
    /\ Cardinality(assets) = 2

\* A list whose filters no row satisfies returned Ok and no rows.
C10_WitnessEmpty ==
    /\ req[1].op = "db_get_assets" /\ resp[1] = OkRows(<<>>)
    /\ req[1].filters.type # None /\ req[1].filters.search # None
    /\ assets # {}

(***************************************************************************)
(* C11. A list returns its rows in non-increasing updated_at order, and   *)
(* with limit n it returns exactly min(n, number of matching rows) rows,   *)
(* each a matching row returned once, such that no matching row left out   *)
(* has a strictly later updated_at than a returned one.                    *)
(***************************************************************************)
C11_Later(a, b) == ~TextLeq(a.updated_at, b.updated_at)

C11_Min(a, b) == IF a <= b THEN a ELSE b

C11_OrderingAndCap ==
    \A t \in Tasks :
        (pc[t] = "idle" /\ req[t].op = "db_get_assets") =>
            LET f == req[t].filters
                matching == {create_asset_row_mapper(r) :
                                r \in {x \in assets : C10_Matches(x, f)}}
                rows == resp[t].rows
                returned == {rows[i] : i \in 1..Len(rows)}
            IN  /\ resp[t].st = "Ok"
                /\ \A i \in 1..Len(rows) : \A j \in i..Len(rows) :
                       ~C11_Later(rows[j], rows[i])
                /\ Len(rows) = IF f.limit = None THEN Cardinality(matching)
                               ELSE C11_Min(Unwrap(f.limit), Cardinality(matching))
                /\ returned \subseteq matching
                /\ Cardinality(returned) = Len(rows)
                /\ \A out \in matching \ returned : \A r \in returned :
                       ~C11_Later(out, r)

\* A list limited to one row returned the latest of three matching rows
\* that were not all saved at the same instant.
C11_Witness ==
    /\ req[1].op = "db_get_assets" /\ req[1].filters.limit = Some(1)
    /\ req[1].filters.type = None /\ req[1].filters.search = None
    /\ Cardinality(assets) = 3
    /\ Len(resp[1].rows) = 1
    /\ \E r \in assets : resp[1].rows[1].updated_at # r.updated_at

(***************************************************************************)
(* C12. Search is a case-sensitive literal substring match: for every      *)
(* search text s, a list filtered by search = s alone returns a row if and *)
(* only if s occurs in the row's name as a contiguous run of characters,   *)
(* compared character by character with no case folding and no wildcard.   *)
(***************************************************************************)
C12_Contains(name, s) ==
    \E i \in 0..(Len(name) - Len(s)) : SubSeq(name, i + 1, i + Len(s)) = s

C12_LiteralSearch ==
    \A t \in Tasks :
        (/\ pc[t] = "idle" /\ req[t].op = "db_get_assets"
         /\ req[t].filters.type = None /\ req[t].filters.limit = None
         /\ req[t].filters.search # None) =>
            LET rows == resp[t].rows
            IN  /\ resp[t].st = "Ok"
                /\ {rows[i].id : i \in 1..Len(rows)} =
                      {r.id : r \in {x \in assets :
                                        C12_Contains(x.name, Unwrap(req[t].filters.search))}}

(***************************************************************************)
(* C13. Settings are last-write-wins per key: a get of a key succeeds and  *)
(* returns absent when the key holds no value and otherwise the value the  *)
(* key holds; a key holds no value until a set of that key completes, and  *)
(* from then on holds the value of the latest completed set of that key;   *)
(* a set of one key changes no other key, and no command removes a key.    *)
(***************************************************************************)
C13_Value(table, k) == {r.value : r \in {x \in table : x.key = k}}

C13_State == \A k \in {r.key : r \in settings} : Cardinality(C13_Value(settings, k)) = 1

C13_Step ==
    /\ \A t \in Tasks :
           (Ran(t) /\ req'[t].op = "db_get_setting") =>
               /\ resp'[t] = OkVal(C13_Value(settings, req'[t].key))
               /\ settings' = settings
    /\ \A t \in Tasks :
           (Ran(t) /\ req'[t].op = "db_save_setting") =>
               /\ resp'[t].st = "Ok"
               /\ C13_Value(settings', req'[t].key) = {req'[t].value}
               /\ \A r \in settings : r.key # req'[t].key => r \in settings'
               /\ \A r \in settings' : r.key # req'[t].key => r \in settings
    /\ (\A t \in Tasks : ~(Ran(t) /\ req'[t].op = "db_save_setting")) =>
           settings' = settings
    /\ {r.key : r \in settings} \subseteq {r.key : r \in settings'}

C13_LastWriteWins == [](C13_State) /\ [][C13_Step]_vars

\* Caller 2 last set key a to 0; after that caller 1 set it to 1 and then
\* read 1 back, while key b holds another value.
C13_Witness ==
    /\ req[2] = SaveSetting(<<"a">>, <<"0">>) /\ resp[2].st = "Ok"
    /\ req[1] = GetSetting(<<"a">>) /\ resp[1] = OkVal(Some(<<"1">>))
    /\ C13_Value(settings, <<"a">>) = {<<"1">>}
    /\ C13_Value(settings, <<"b">>) = {<<"0">>}

\* A get of a key never set returned absent, successfully.
C13_WitnessAbsent ==
    /\ req[1] = GetSetting(<<"b">>) /\ resp[1] = OkVal(None)
    /\ C13_Value(settings, <<"a">>) # {}

(***************************************************************************)
(* C14. config and metadata round-trip: after a successful save, every     *)
(* list of the table returns, in the asset the save wrote, a config and a  *)
(* metadata equal to the JSON values the payload supplied, and null for a  *)
(* field the payload omitted.                                              *)
(***************************************************************************)
C14_Supplied(v) == IF v.k = "absent" THEN JNull ELSE v

C14_Step ==
    \A t \in Tasks :
        (Ran(t) /\ SaveOk(t)) =>
            \A rows \in ListResults(assets', NoFilters) :
                \E i \in 1..Len(rows) :
                    /\ rows[i].id = Unwrap(resp'[t].val)
                    /\ rows[i].config = C14_Supplied(req'[t].asset.config)
                    /\ rows[i].metadata = C14_Supplied(req'[t].asset.metadata)

C14_WitnessString ==
    /\ req[1].op = "db_get_assets" /\ Len(resp[1].rows) = 1
    /\ resp[1].rows[1].config = JStr(<<"a", Quote, Backslash, "b">>)

(***************************************************************************)
(* C15. updated_at always advances to the time of the save: after every    *)
(* successful save the row stored under the returned id has updated_at =   *)
(* the clock reading of that save, whatever updated_at the payload carries *)
(* and whatever updated_at the row had before.                             *)
(***************************************************************************)
C15_Step ==
    \A t \in Tasks :
        (Ran(t) /\ SaveOk(t)) =>
            \E r \in assets' :
                /\ r.id = Unwrap(resp'[t].val)
                /\ r.updated_at = to_rfc3339(clock)

C15_UpdatedAtIsNow == [][C15_Step]_vars

\* A payload carrying its own updated_at replaced a row saved at an earlier
\* clock reading; the row now has the reading of the later save.
C15_Witness ==
    /\ req[1].op = "db_save_asset" /\ resp[1].st = "Ok"
    /\ req[1].asset.updated_at.k = "str"
    /\ clock = MaxClock
    /\ \E old \in displaced : \E r \in assets :
           /\ r.id = old.id /\ r.id = Unwrap(resp[1].val)
           /\ old.updated_at # r.updated_at
           /\ r.updated_at = to_rfc3339(clock)
           /\ r.updated_at # req[1].asset.updated_at.s

(***************************************************************************)
(* C19. A save whose payload has no id, or an id that is not a string,     *)
(* returns an identifier no row had, adds exactly one row, stored under    *)
(* that identifier, and leaves every existing row as it was; a save whose  *)
(* payload has a string id returns that id, and the row is stored under it.*)
(***************************************************************************)
C19_Step ==
    \A t \in Tasks :
        (Ran(t) /\ SaveOk(t)) =>
            LET given == as_str(get(req'[t].asset.id))
                id == Unwrap(resp'[t].val)
            IN  /\ Cardinality({r \in assets' : r.id = id}) = 1
                /\ given # None => id = Unwrap(given)
                /\ given = None =>
                       /\ id \notin AssetIds(assets)
                       /\ assets \subseteq assets'
                       /\ Cardinality(assets') = Cardinality(assets) + 1

C19_SaveWithoutIdAdds == [][C19_Step]_vars

\* A save whose id is a number returned a generated identifier and added a
\* second row next to the one already stored.
C19_Witness ==
    /\ req[1].op = "db_save_asset" /\ req[1].asset.id.k = "num"
    /\ resp[1] = OkVal(Some(new_v4(1)))
    /\ displaced = {}
    /\ AssetIds(assets) = {IdA, new_v4(1)}

\* A save without an id did the same.
C19_WitnessAbsent ==
    /\ req[1].op = "db_save_asset" /\ req[1].asset.id.k = "absent"
    /\ resp[1] = OkVal(Some(new_v4(1)))
    /\ displaced = {}
    /\ AssetIds(assets) = {IdA, new_v4(1)}

(***************************************************************************)
(* C17. Required fields are never empty: every row of the assets table has *)
(* a non-empty asset_type and a non-empty name.                            *)
(***************************************************************************)
C17_RequiredNonEmpty ==
    \A r \in assets : r.asset_type # <<>> /\ r.name # <<>>

(***************************************************************************)
(* C20. quality_score is stored without loss: after a successful save      *)
(* whose payload carries a non-negative integer quality_score, the row     *)
(* stored under the returned id holds that integer, also when it is 2^32   *)
(* or more.                                                                *)
(***************************************************************************)
C20_Step ==
    \A t \in Tasks :
        (Ran(t) /\ SaveOk(t) /\ req'[t].asset.quality_score.k = "num") =>
            \E r \in assets' :
                /\ r.id = Unwrap(resp'[t].val)
                /\ r.quality_score =
                      Some(<<req'[t].asset.quality_score.h, req'[t].asset.quality_score.n>>)

C20_QualityScoreKept == [][C20_Step]_vars

(***************************************************************************)
(* C16. The guard is never held across a wait: a task suspended on a file  *)
(* operation or a dialog does not hold the mutex, and starting or          *)
(* finishing such a command changes neither the mutex nor the tables; so a *)
(* task in lock() can take the mutex whenever no store command holds it,   *)
(* and a store command issued while a dialog or file operation is pending  *)
(* acquires the mutex and returns even if that wait never ends.            *)
(***************************************************************************)
C16_Waiting == {t \in Tasks : pc[t] = "wait"}

C16_State ==
    /\ \A t \in C16_Waiting : lock # t
    /\ \A t \in Tasks :
           (pc[t] = "lock" /\ \A u \in Tasks \ {t} : pc[u] \in {"idle", "wait", "lock"}) =>
               ENABLED Lock(t)

C16_Step ==
    \A t \in Tasks :
        (pc[t] # pc'[t] /\ (pc[t] = "wait" \/ pc'[t] = "wait")) =>
            /\ lock' = lock
            /\ assets' = assets /\ settings' = settings

C16_Progress ==
    \A t \in Tasks :
        (pc[t] = "lock" /\ C16_Waiting # {}) ~> (pc[t] = "idle" /\ resp[t].st # "none")

C18_State ==
    /\ lock # 0 => pc[lock] = "held"
    /\ \A t \in Tasks : (pc[t] = "idle" /\ resp[t].st = "Err") => lock # t

C18_Step ==
    \A t \in Tasks :
        (pc[t] = "held" /\ pc'[t] # "held") =>
            /\ lock = t /\ lock' = 0
            /\ resp'[t].st \in {"Ok", "Err"}

C18_Progress ==
    \A t \in Tasks : (pc[t] = "lock") ~> (pc[t] = "idle" /\ resp[t].st # "none")

C18_LockReleased == [](C18_State) /\ [][C18_Step]_vars /\ C18_Progress

\* Task 2 returned a not-found error, and after it task 1 took the mutex.
C18_Witness ==
    /\ pc[1] = "held" /\ lock = 1
    /\ pc[2] = "idle" /\ resp[2] = Err("Asset not found")

\* A save returned a validation error and the mutex is free.
C18_WitnessValidation ==
    /\ pc[1] = "idle" /\ resp[1] = Err("Missing asset_type") /\ lock = 0
    /\ pc[2] = "lock"

====
